---- MODULE Spec2Model ----
(***************************************************************************)
(* Model of the document intake pipeline of src/main.py: the Cloud        *)
(* Function process_document_upload, the threshold evaluation            *)
(* check_training_conditions, the trigger trigger_training_workflow, and  *)
(* the Firestore collections they share (processed_documents,             *)
(* training_configs, training_batches).  Every Firestore / Document AI /  *)
(* Workflows round trip is one atomic step; invocations of the function   *)
(* interleave between round trips.                                        *)
(***************************************************************************)
EXTENDS Integers, Sequences, FiniteSets, TLC

(***************************************************************************)
(* Bounds of the model.                                                    *)
(***************************************************************************)
MaxInvocations == 2
MaxFaults == 1
MaxBatches == 2
MaxUploads == 3

(***************************************************************************)
(* Strings that the code takes apart are sequences of one-character        *)
(* strings; a path is the sequence of its '/'-separated segments           *)
(* (file_name.split('/')).                                                 *)
(***************************************************************************)
S_documents == <<"d", "o", "c", "u", "m", "e", "n", "t", "s">>
S_uploads == <<"u", "p", "l", "o", "a", "d", "s">>
S_tax == <<"t", "a", "x">>
S_cap_call == <<"c", "a", "p", " ", "c", "a", "l", "l">>
S_a_pdf == <<"a", ".", "p", "d", "f">>
S_b_pdf == <<"b", ".", "p", "d", "f">>
S_c_pdf == <<"c", ".", "p", "d", "f">>
S_x_pdf == <<"x", " ", "1", ".", "p", "d", "f">>
S_2024 == <<"2", "0", "2", "4">>
S_n_pdf == <<"n", ".", "p", "d", "f">>
OTHER_LABEL == <<"O", "T", "H", "E", "R">>

PathA == <<S_documents, S_tax, S_a_pdf>>
PathB == <<S_documents, S_tax, S_b_pdf>>
PathC == <<S_documents, S_cap_call, S_c_pdf>>
PathX == <<S_documents, S_x_pdf>>
PathU == <<S_uploads, S_tax, S_a_pdf>>
PathN == <<S_documents, S_tax, S_2024, S_n_pdf>>

\* The paths of the objects whose upload is notified, in a fixed order.
NameTable == <<PathA, PathB, PathC, PathU, PathX, PathN>>
Names == {NameTable[k] : k \in 1..Len(NameTable)}
\* The objects uploaded while invocations run concurrently.
UploadNames == {PathA, PathB, PathC, PathU}

PDF == "application/pdf"
PNG == "image/png"

\* event['bucket'], event['name'], event.get('contentType', '')
Event(hb, hn, n, ct) == [has_bucket |-> hb, has_name |-> hn, name |-> n, contentType |-> ct]
NoEvent == Event(FALSE, FALSE, <<>>, "")
Events ==
    {Event(TRUE, TRUE, n, PDF) : n \in UploadNames}
        \cup {Event(TRUE, TRUE, PathA, PNG), Event(TRUE, TRUE, PathA, ""),
              Event(FALSE, TRUE, PathA, PDF), Event(TRUE, FALSE, <<>>, PDF)}

PROCESSOR_ID == "P"

(***************************************************************************)
(* Identity: document_id = safe_name + '_' + md5(file_name)[:8].          *)
(***************************************************************************)
SafeNameLimit == 40

Alnum ==
    {"a", "b", "c", "d", "e", "f", "g", "h", "i", "j", "k", "l", "m", "n", "o", "p", "q",
     "r", "s", "t", "u", "v", "w", "x", "y", "z", "A", "B", "C", "D", "E", "F", "G", "H",
     "I", "J", "K", "L", "M", "N", "O", "P", "Q", "R", "S", "T", "U", "V", "W", "X", "Y",
     "Z", "0", "1", "2", "3", "4", "5", "6", "7", "8", "9"}

\* str.replace(' ', '_')
ReplaceSpaces(s) == [k \in 1..Len(s) |-> IF s[k] = " " THEN "_" ELSE s[k]]

\* os.path.basename(file_name)
Basename(name) == name[Len(name)]

\* filename_only.rsplit('.', 1)[0] if '.' in filename_only else filename_only
NameWithoutExt(f) ==
    LET dots == {k \in 1..Len(f) : f[k] = "."}
    IN  IF dots = {} THEN f
        ELSE SubSeq(f, 1, (CHOOSE k \in dots : \A j \in dots : j <= k) - 1)

\* ''.join(c if c.isalnum() or c in '-_' else '_' for c in ...)[:40]
SafeName(f) ==
    LET r == ReplaceSpaces(NameWithoutExt(f))
        m == [k \in 1..Len(r) |-> IF r[k] \in Alnum \cup {"-", "_"} THEN r[k] ELSE "_"]
    IN  SubSeq(m, 1, IF Len(m) < SafeNameLimit THEN Len(m) ELSE SafeNameLimit)

\* hashlib.md5(file_name.encode()).hexdigest()[:8]: the digest is an opaque
\* token, different for the different paths of NameTable.
Md5Prefix(name) == CHOOSE k \in 1..Len(NameTable) : NameTable[k] = name

DocumentId(name) == <<SafeName(Basename(name)), Md5Prefix(name)>>

\* file_name.startswith('documents/')
StartsWithDocuments(name) == Len(name) >= 2 /\ name[1] = S_documents

Accepted(ev) == StartsWithDocuments(ev.name) /\ ev.contentType = PDF

DocIds == {DocumentId(n) : n \in {m \in Names : StartsWithDocuments(m)}}

\* Mutant: the label is the folder that holds the file, not the first folder
\* below documents/.
auto_label_document_ParentFolder(file_name) ==
    IF Len(file_name) > 2 THEN ReplaceSpaces(file_name[Len(file_name) - 1]) ELSE OTHER_LABEL

\* auto_label_document
auto_label_document(file_name) ==
    IF Len(file_name) > 2 THEN ReplaceSpaces(file_name[2]) ELSE OTHER_LABEL

(***************************************************************************)
(* The records of the store.                                               *)
(***************************************************************************)
NoBatchId == 0
BatchIds == 1..MaxBatches

NoDoc == [status |-> "absent"]
DocRecord(st, lbl, used, bid) ==
    [processor_id |-> PROCESSOR_ID, status |-> st, document_label |-> lbl,
     used_for_training |-> used, training_batch_id |-> bid]

NoConfig == [exists |-> FALSE]
Config(en, mi, mc) ==
    [exists |-> TRUE, enabled |-> en, min_documents_for_initial_training |-> mi,
     min_documents_for_incremental |-> mc]
DefaultMinInitial == 3
DefaultMinIncremental == 2
DefaultConfig == Config(TRUE, DefaultMinInitial, DefaultMinIncremental)

NoBatch == [status |-> "absent"]
ActiveStatuses == {"pending", "preparing", "training", "deploying"}

VARIABLES
    docs,        \* collection processed_documents: document_id -> record
    config,      \* training_configs/PROCESSOR_ID
    batches,     \* collection training_batches: batch id -> record
    deployed,    \* the processor has a version in state DEPLOYED
    executions,  \* the workflow executions created so far, in order
    inv,         \* the running invocations of process_document_upload
    started,     \* number of invocations started
    faults,      \* number of failures of external services so far
    ops          \* the operator's script or the monitor that is running, if any

vars == <<docs, config, batches, deployed, executions, inv, started, faults, ops>>

Inv == {1, 2}

Response(st, reason, trig, kind, err) ==
    [status |-> st, reason |-> reason, training_triggered |-> trig,
     training_type |-> kind, error |-> err]
NoResponse == Response("none", "", FALSE, "", "")

IdleInv ==
    [pc |-> "idle", event |-> NoEvent, document_id |-> <<>>, doc_data |-> NoDoc,
     config |-> NoConfig, seen_launches |-> 0, pending |-> {}, counted |-> {},
     should_train |-> FALSE, training_type |-> "", selected |-> {},
     response |-> NoResponse]

Running(i) == inv[i].pc # "idle"

\* return <response>: the invocation ends with the response in its hands.
Return(i, r) ==
    inv' = [inv EXCEPT ![i] = [IdleInv EXCEPT !.pc = "done", !.response = r,
                                               !.document_id = inv[i].document_id,
                                               !.seen_launches = inv[i].seen_launches,
                                               !.training_type = inv[i].training_type,
                                               !.selected = inv[i].selected]]

\* The invocation goes on to its next round trip with its locals changed.
Goto(i, rec) == inv' = [inv EXCEPT ![i] = rec]

\* A call of an external service fails (raises) or not.
CanFail == faults < MaxFaults

\* No script of the operator and no monitor is running.
IdleOps ==
    [pc |-> "idle", todo |-> {}, claims_seen |-> 0, count |-> 0, elapsed |-> 0,
     checks |-> 0, max_checks |-> 0, operation |-> "none", result |-> "none"]

InitConfigs ==
    {NoConfig, Config(TRUE, 1, 1), Config(TRUE, 2, 2), Config(FALSE, 1, 1)}

Init ==
    /\ docs = [d \in DocIds |-> NoDoc]
    /\ config \in InitConfigs
    /\ batches = [b \in BatchIds |-> NoBatch]
    /\ deployed \in BOOLEAN
    /\ executions = <<>>
    /\ inv = [i \in Inv |-> IdleInv]
    /\ started = 0
    /\ faults = 0
    /\ ops = IdleOps

\* Mutant: the filter looks at the prefix of the name only, not at the
\* content type.
StartBounded_PrefixOnly(i, ev, bound) ==
    /\ ~Running(i)
    /\ \A j \in Inv : j < i => Running(j)
    /\ started < bound
    /\ started' = started + 1
    /\ UNCHANGED <<ops, docs, config, batches, deployed, executions, faults>>
    /\ IF ~ev.has_bucket \/ ~ev.has_name
       THEN Return(i, Response("error", "", FALSE, "", "KeyError"))
       ELSE IF ~StartsWithDocuments(ev.name)
       THEN Return(i, Response("skipped", "Not a document PDF", FALSE, "", ""))
       ELSE Goto(i, [IdleInv EXCEPT !.pc = "read_existing", !.event = ev,
                                    !.document_id = DocumentId(ev.name)])

(***************************************************************************)
(* process_document_upload, lines 59-77: the event is delivered, filtered  *)
(* and the document id derived.  Slots carry no meaning: an invocation     *)
(* takes the lowest free one.                                              *)
(***************************************************************************)
StartBounded(i, ev, bound) ==
    /\ ~Running(i)
    /\ \A j \in Inv : j < i => Running(j)
    /\ started < bound
    /\ started' = started + 1
    /\ UNCHANGED <<ops, docs, config, batches, deployed, executions, faults>>
    /\ IF ~ev.has_bucket \/ ~ev.has_name
       THEN \* event['bucket'] / event['name'] raises KeyError, caught at line 177
            Return(i, Response("error", "", FALSE, "", "KeyError"))
       ELSE IF ~Accepted(ev)
       THEN Return(i, Response("skipped", "Not a document PDF", FALSE, "", ""))
       ELSE Goto(i, [IdleInv EXCEPT !.pc = "read_existing", !.event = ev,
                                    !.document_id = DocumentId(ev.name)])

Start(i, ev) == StartBounded(i, ev, MaxInvocations)

\* The response reaches the event dispatcher and the invocation is over.
Finish(i) ==
    /\ inv[i].pc = "done"
    /\ inv' = [inv EXCEPT ![i] = IdleInv]
    /\ UNCHANGED <<ops, docs, config, batches, deployed, executions, started, faults>>

\* Mutant: the idempotence gate is missing.
ReadExistingStep_NoGate(i, fail) ==
    /\ inv[i].pc = "read_existing"
    /\ UNCHANGED <<ops, docs, config, batches, deployed, executions, started>>
    /\ IF fail
       THEN /\ CanFail
            /\ faults' = faults + 1
            /\ Return(i, Response("error", "", FALSE, "", "store"))
       ELSE /\ faults' = faults
            /\ Goto(i, [inv[i] EXCEPT
                     !.pc = "classify",
                     !.doc_data = DocRecord("pending", auto_label_document(inv[i].event.name),
                                            FALSE, NoBatchId)])

\* lines 79-103: existing_doc = doc_ref.get(); the idempotence gate; doc_data.
ReadExistingStep(i, fail) ==
    /\ inv[i].pc = "read_existing"
    /\ UNCHANGED <<ops, docs, config, batches, deployed, executions, started>>
    /\ IF fail
       THEN /\ CanFail
            /\ faults' = faults + 1
            /\ Return(i, Response("error", "", FALSE, "", "store"))
       ELSE /\ faults' = faults
            /\ IF docs[inv[i].document_id].status = "completed"
               THEN Return(i, Response("skipped", "Already processed", FALSE, "", ""))
               ELSE Goto(i, [inv[i] EXCEPT
                        !.pc = "classify",
                        !.doc_data = DocRecord("pending", auto_label_document(inv[i].event.name),
                                               FALSE, NoBatchId)])

ReadExisting(i) == \E fail \in BOOLEAN : ReadExistingStep(i, fail)

\* Confidence in hundredths: 0.7 is 70.
ConfidenceThreshold == 70
Confidences == {50, 70, 90}
PredictedTypes == {S_tax}

\* Mutant: the predicted type always replaces the folder label.
ClassifiedLabel_AlwaysPredicted(document_label, predicted_type, confidence) ==
    predicted_type

\* lines 116-123: the label a successful classification leaves in doc_data.
ClassifiedLabel(document_label, predicted_type, confidence) ==
    IF confidence < ConfidenceThreshold /\ document_label # OTHER_LABEL
    THEN document_label
    ELSE predicted_type

\* check_processor_versions: a failure of the listing is caught and answers False.
check_processor_versions(fail) == IF fail THEN FALSE ELSE deployed

\* Mutant: a failure of the version listing or of the classification ends
\* the invocation with status error.
ClassifyStep_Abort(i, list_fails, classify_fails, predicted_type, confidence) ==
    /\ inv[i].pc = "classify"
    /\ UNCHANGED <<ops, docs, config, batches, deployed, executions, started>>
    /\ (list_fails \/ classify_fails => CanFail)
    /\ ~(list_fails /\ classify_fails)
    /\ (classify_fails => deployed)
    /\ faults' = IF list_fails \/ classify_fails THEN faults + 1 ELSE faults
    /\ IF list_fails \/ classify_fails
       THEN Return(i, Response("error", "", FALSE, "", "classification"))
       ELSE IF deployed
       THEN Goto(i, [inv[i] EXCEPT
                !.pc = "save",
                !.doc_data.status = "completed",
                !.doc_data.document_label =
                    ClassifiedLabel(inv[i].doc_data.document_label, predicted_type, confidence)])
       ELSE Goto(i, [inv[i] EXCEPT !.pc = "save",
                                   !.doc_data.status = "pending_initial_training"])

\* lines 105-141: the version check, then with a deployed version the
\* classification, which returns a result or raises.  Neither call touches
\* the store, so the two make one step.
ClassifyStep(i, list_fails, classify_fails, predicted_type, confidence) ==
    /\ inv[i].pc = "classify"
    /\ UNCHANGED <<ops, docs, config, batches, deployed, executions, started>>
    /\ (list_fails \/ classify_fails => CanFail)
    /\ ~(list_fails /\ classify_fails)
    /\ (classify_fails => deployed)
    /\ faults' = IF list_fails \/ classify_fails THEN faults + 1 ELSE faults
    /\ IF check_processor_versions(list_fails) /\ ~classify_fails
       THEN Goto(i, [inv[i] EXCEPT
                !.pc = "save",
                !.doc_data.status = "completed",
                !.doc_data.document_label =
                    ClassifiedLabel(inv[i].doc_data.document_label, predicted_type, confidence)])
       ELSE Goto(i, [inv[i] EXCEPT !.pc = "save",
                                   !.doc_data.status = "pending_initial_training"])

Classify(i) ==
    \E list_fails \in BOOLEAN, classify_fails \in BOOLEAN,
       predicted_type \in PredictedTypes, confidence \in Confidences :
        ClassifyStep(i, list_fails, classify_fails, predicted_type, confidence)

\* Mutant: the record is written as it was first built, with status pending.
SaveStep_Pending(i, fail) ==
    /\ inv[i].pc = "save"
    /\ UNCHANGED <<ops, config, batches, deployed, executions, started>>
    /\ IF fail
       THEN /\ CanFail
            /\ faults' = faults + 1
            /\ UNCHANGED docs
            /\ Return(i, Response("error", "", FALSE, "", "store"))
       ELSE /\ faults' = faults
            /\ docs' = [docs EXCEPT ![inv[i].document_id] =
                                       [inv[i].doc_data EXCEPT !.status = "pending"]]
            /\ Goto(i, [inv[i] EXCEPT !.pc = "get_config"])

\* lines 143-145: doc_ref.set(doc_data), a full overwrite of the record.
SaveStep(i, fail) ==
    /\ inv[i].pc = "save"
    /\ UNCHANGED <<ops, config, batches, deployed, executions, started>>
    /\ IF fail
       THEN /\ CanFail
            /\ faults' = faults + 1
            /\ UNCHANGED docs
            /\ Return(i, Response("error", "", FALSE, "", "store"))
       ELSE /\ faults' = faults
            /\ docs' = [docs EXCEPT ![inv[i].document_id] = inv[i].doc_data]
            /\ Goto(i, [inv[i] EXCEPT !.pc = "get_config"])

Save(i) == \E fail \in BOOLEAN : SaveStep(i, fail)

\* lines 170-175: should_train is False.
NotTriggered == Response("success", "", FALSE, "", "")

\* lines 408-410: an exception inside check_training_conditions is caught and
\* answers (False, '').
CheckFails(i) ==
    /\ CanFail
    /\ faults' = faults + 1
    /\ Return(i, NotTriggered)

\* Mutant: the enabled flag is not looked at.
AfterConfig_IgnoreEnabled(i, cfg) ==
    Goto(i, [inv[i] EXCEPT !.pc = "query_active", !.config = cfg])

\* lines 321-323: the enabled flag of the configuration in use.
AfterConfig(i, cfg) ==
    IF ~cfg.enabled
    THEN Return(i, NotTriggered)
    ELSE Goto(i, [inv[i] EXCEPT !.pc = "query_active", !.config = cfg])

\* lines 302-306 and 318-323: config_doc = config_ref.get().
GetConfigStep(i, fail) ==
    /\ inv[i].pc = "get_config"
    /\ UNCHANGED <<ops, docs, config, batches, deployed, executions, started>>
    /\ IF fail
       THEN CheckFails(i)
       ELSE /\ faults' = faults
            /\ IF ~config.exists
               THEN Goto(i, [inv[i] EXCEPT !.pc = "set_default_config"])
               ELSE AfterConfig(i, config)

GetConfig(i) == \E fail \in BOOLEAN : GetConfigStep(i, fail)

\* lines 307-317: config_ref.set(default_config).
SetDefaultConfigStep(i, fail) ==
    /\ inv[i].pc = "set_default_config"
    /\ UNCHANGED <<ops, docs, batches, deployed, executions, started>>
    /\ IF fail
       THEN /\ UNCHANGED config
            /\ CheckFails(i)
       ELSE /\ faults' = faults
            /\ config' = DefaultConfig
            /\ AfterConfig(i, DefaultConfig)

SetDefaultConfig(i) == \E fail \in BOOLEAN : SetDefaultConfigStep(i, fail)

\* Mutant: the query leaves out the status pending.
ActiveQueryStatuses_NoPending == {"preparing", "training", "deploying"}

\* The statuses the active-training query asks for, line 329.
ActiveQueryStatuses == {"pending", "preparing", "training", "deploying"}

\* lines 325-330: the query of training_batches.
ActiveTraining ==
    {b \in BatchIds : /\ batches[b].status # "absent"
                      /\ batches[b].processor_id = PROCESSOR_ID
                      /\ batches[b].status \in ActiveQueryStatuses}

\* lines 325-334
QueryActiveStep(i, fail) ==
    /\ inv[i].pc = "query_active"
    /\ UNCHANGED <<ops, docs, config, batches, deployed, executions, started>>
    /\ IF fail
       THEN CheckFails(i)
       ELSE /\ faults' = faults
            /\ IF ActiveTraining # {}
               THEN Return(i, NotTriggered)
               ELSE Goto(i, [inv[i] EXCEPT !.pc = "query_pending",
                                           !.seen_launches = Len(executions)])

QueryActive(i) == \E fail \in BOOLEAN : QueryActiveStep(i, fail)

\* doc.to_dict().get('document_label') is truthy
HasLabel(d) == docs[d].document_label # <<>>

\* lines 353-357, 367, 371: the pending-initial query and the label filter.
PendingInitial ==
    {d \in DocIds : /\ docs[d].status # "absent"
                    /\ docs[d].processor_id = PROCESSOR_ID
                    /\ docs[d].status = "pending_initial_training"
                    /\ HasLabel(d)}

\* lines 359-365, 368, 372: the unused-completed query and the label filter.
UnusedCompleted ==
    {d \in DocIds : /\ docs[d].status # "absent"
                    /\ docs[d].processor_id = PROCESSOR_ID
                    /\ docs[d].status = "completed"
                    /\ docs[d].used_for_training = FALSE
                    /\ HasLabel(d)}

\* Mutant: the thresholds are evaluated before the invocation's own record
\* is persisted, so the pending query does not return it.
QueryPendingStep_BeforeSave(i, fail) ==
    /\ inv[i].pc = "query_pending"
    /\ UNCHANGED <<ops, docs, config, batches, deployed, executions, started>>
    /\ IF fail
       THEN CheckFails(i)
       ELSE /\ faults' = faults
            /\ Goto(i, [inv[i] EXCEPT !.pc = "query_unused",
                                      !.pending = PendingInitial \ {inv[i].document_id}])

\* line 367
QueryPendingStep(i, fail) ==
    /\ inv[i].pc = "query_pending"
    /\ UNCHANGED <<ops, docs, config, batches, deployed, executions, started>>
    /\ IF fail
       THEN CheckFails(i)
       ELSE /\ faults' = faults
            /\ Goto(i, [inv[i] EXCEPT !.pc = "query_unused", !.pending = PendingInitial])

QueryPending(i) == \E fail \in BOOLEAN : QueryPendingStep(i, fail)

\* Mutant: the thresholds are evaluated before the record is persisted, so
\* the counts miss the invocation's own record.
Decide_BeforeSave(pending_count, unused_count, cfg) ==
    IF pending_count - 1 >= cfg.min_documents_for_initial_training
    THEN <<TRUE, "initial">>
    ELSE IF unused_count - 1 >= cfg.min_documents_for_incremental
    THEN <<TRUE, "incremental">>
    ELSE <<FALSE, "">>

\* Mutant: the incremental threshold is looked at first.
Decide_IncrementalFirst(pending_count, unused_count, cfg) ==
    IF unused_count >= cfg.min_documents_for_incremental
    THEN <<TRUE, "incremental">>
    ELSE IF pending_count >= cfg.min_documents_for_initial_training
    THEN <<TRUE, "initial">>
    ELSE <<FALSE, "">>

\* lines 394-406: the decision, from the two counts and the configuration.
Decide(pending_count, unused_count, cfg) ==
    IF pending_count >= cfg.min_documents_for_initial_training
    THEN <<TRUE, "initial">>
    ELSE IF unused_count >= cfg.min_documents_for_incremental
    THEN <<TRUE, "incremental">>
    ELSE <<FALSE, "">>

\* lines 368-406 and 148-150
QueryUnusedStep(i, fail) ==
    /\ inv[i].pc = "query_unused"
    /\ UNCHANGED <<ops, docs, config, batches, deployed, executions, started>>
    /\ IF fail
       THEN CheckFails(i)
       ELSE /\ faults' = faults
            /\ LET r == Decide(Cardinality(inv[i].pending), Cardinality(UnusedCompleted),
                               inv[i].config)
               IN  IF r[1]
                   THEN Goto(i, [inv[i] EXCEPT
                            !.pc = "organize", !.should_train = TRUE, !.training_type = r[2],
                            !.counted = IF r[2] = "initial" THEN inv[i].pending
                                        ELSE UnusedCompleted])
                   ELSE Return(i, NotTriggered)

QueryUnused(i) == \E fail \in BOOLEAN : QueryUnusedStep(i, fail)

(***************************************************************************)
(* trigger_training_workflow and organize_training_documents.              *)
(***************************************************************************)
QueryLimit == 50

\* Mutant: the query does not ask for used_for_training == False.
TrainingCandidates_IgnoreUsed(training_type) ==
    {d \in DocIds : /\ docs[d].status # "absent"
                    /\ docs[d].processor_id = PROCESSOR_ID
                    /\ docs[d].status = (IF training_type = "initial"
                                         THEN "pending_initial_training" ELSE "completed")
                    /\ docs[d].document_label # <<>>}

\* lines 565-574: the documents the query of organize_training_documents matches.
TrainingCandidates(training_type) ==
    {d \in DocIds : /\ docs[d].status # "absent"
                    /\ docs[d].processor_id = PROCESSOR_ID
                    /\ docs[d].status = (IF training_type = "initial"
                                         THEN "pending_initial_training" ELSE "completed")
                    /\ docs[d].used_for_training = FALSE
                    /\ docs[d].document_label # <<>>}

\* .limit(50): any QueryLimit of the matching documents when there are more.
Limited(S) ==
    IF Cardinality(S) <= QueryLimit THEN {S}
    ELSE {T \in SUBSET S : Cardinality(T) = QueryLimit}

\* Mutant: the partial_success response carries no error string.
TriggerFailed_NoError == Response("partial_success", "", FALSE, "", "")

\* lines 150-168: trigger_training_workflow raised.
TriggerFailed == Response("partial_success", "", FALSE, "", "Workflow trigger failed")

\* lines 636 and 557-619: the query and the upload of the labeled JSON files;
\* any exception is raised again and ends the trigger.
OrganizeStep(i, fail, docs_found) ==
    /\ inv[i].pc = "organize"
    /\ UNCHANGED <<ops, docs, config, batches, deployed, executions, started>>
    /\ IF fail
       THEN /\ CanFail
            /\ faults' = faults + 1
            /\ Return(i, TriggerFailed)
       ELSE /\ faults' = faults
            /\ Goto(i, [inv[i] EXCEPT !.pc = "launch", !.selected = docs_found])

Organize(i) ==
    \E fail \in BOOLEAN, docs_found \in Limited(TrainingCandidates(inv[i].training_type)) :
        OrganizeStep(i, fail, docs_found)

\* What a created workflow execution carries, and the batch its run has
\* recorded (NoBatchId until then).
Execution(training_type, counted) ==
    [training_type |-> training_type, counted |-> counted, batch_id |-> NoBatchId]

\* Mutant: the launch is given up when another execution was created since
\* the invocation looked for an active batch.
LaunchStep_Recheck(i, fail) ==
    /\ inv[i].pc = "launch"
    /\ UNCHANGED <<ops, docs, config, batches, deployed, started>>
    /\ IF fail
       THEN /\ CanFail
            /\ faults' = faults + 1
            /\ UNCHANGED executions
            /\ Return(i, TriggerFailed)
       ELSE /\ faults' = faults
            /\ IF Len(executions) # inv[i].seen_launches
               THEN /\ UNCHANGED executions
                    /\ Return(i, NotTriggered)
               ELSE /\ executions' = Append(executions,
                                            Execution(inv[i].training_type, inv[i].counted))
                    /\ Return(i, Response("success", "", TRUE, inv[i].training_type, ""))

\* lines 638-664 and 154-168: workflow_execution_client.create_execution.
LaunchStep(i, fail) ==
    /\ inv[i].pc = "launch"
    /\ UNCHANGED <<ops, docs, config, batches, deployed, started>>
    /\ IF fail
       THEN /\ CanFail
            /\ faults' = faults + 1
            /\ UNCHANGED executions
            /\ Return(i, TriggerFailed)
       ELSE /\ faults' = faults
            /\ executions' = Append(executions,
                                    Execution(inv[i].training_type, inv[i].counted))
            /\ Return(i, Response("success", "", TRUE, inv[i].training_type, ""))

Launch(i) == \E fail \in BOOLEAN : LaunchStep(i, fail)

(***************************************************************************)
(* The launched training workflow and the operator's scripts.             *)
(***************************************************************************)
Batch(st, ids, kind) ==
    [processor_id |-> PROCESSOR_ID, status |-> st, document_ids |-> ids,
     training_type |-> kind]

\* The run of a created execution records its batch: a TrainingBatch with
\* status pending and the candidate documents, which it claims.
WorkflowRecordsBatch(k, b) ==
    /\ k \in 1..Len(executions)
    /\ executions[k].batch_id = NoBatchId
    /\ batches[b].status = "absent"
    /\ \A c \in BatchIds : c < b => batches[c].status # "absent"
    /\ LET ids == TrainingCandidates(executions[k].training_type)
       IN  /\ batches' = [batches EXCEPT ![b] = Batch("pending", ids, executions[k].training_type)]
           /\ docs' = [d \in DocIds |->
                          IF d \in ids
                          THEN [docs[d] EXCEPT !.used_for_training = TRUE,
                                               !.training_batch_id = b]
                          ELSE docs[d]]
    /\ executions' = [executions EXCEPT ![k].batch_id = b]
    /\ UNCHANGED <<ops, config, deployed, inv, started, faults>>

NextStatus(st) ==
    CASE st = "pending" -> "preparing"
      [] st = "preparing" -> "training"
      [] st = "training" -> "deploying"
      [] st = "deploying" -> "deployed"

\* The run moves its batch on, to deployed (the processor then has a
\* deployed version) or to failed.
BatchAdvance(b, ok) ==
    /\ batches[b].status \in ActiveStatuses
    /\ batches' = [batches EXCEPT ![b].status = IF ok THEN NextStatus(batches[b].status)
                                                ELSE "failed"]
    /\ deployed' = (deployed \/ (ok /\ batches[b].status = "deploying"))
    /\ UNCHANGED <<ops, docs, config, executions, inv, started, faults>>

\* update_training_status.py: every active batch of the processor is set to completed.
update_training_status ==
    /\ \E b \in BatchIds : batches[b].status \in ActiveStatuses
    /\ batches' = [b \in BatchIds |->
                      IF /\ batches[b].status # "absent"
                         /\ batches[b].processor_id = PROCESSOR_ID
                         /\ batches[b].status \in {"pending", "preparing", "training", "deploying"}
                      THEN [batches[b] EXCEPT !.status = "completed"]
                      ELSE batches[b]]
    /\ UNCHANGED <<ops, docs, config, deployed, executions, inv, started, faults>>

(***************************************************************************)
(* The operator's scripts and the monitors of a long-running operation.    *)
(* One of them runs at a time; ops holds its position and its locals.      *)
(***************************************************************************)
\* The script or monitor ends with the result res.
ToolReturn(res) == ops' = [ops EXCEPT !.pc = "returned", !.result = res, !.todo = {}]

\* The process of the script or monitor exits.
ToolExit ==
    /\ ops.pc = "returned"
    /\ ops' = IdleOps
    /\ UNCHANGED <<docs, config, batches, deployed, executions, inv, started, faults>>

\* The number of executions whose run has recorded its batch.
ClaimsRecorded ==
    Cardinality({k \in 1..Len(executions) : executions[k].batch_id # NoBatchId})

\* Mutant: the query of the reset has no processor_id filter.
ResetCandidates_AllProcessors ==
    {d \in DocIds : /\ docs[d].status # "absent"
                    /\ docs[d].used_for_training = TRUE}

\* manual-trigger-training.py lines 118-120: the records the reset asks for.
ResetCandidates ==
    {d \in DocIds : /\ docs[d].status # "absent"
                    /\ docs[d].processor_id = PROCESSOR_ID
                    /\ docs[d].used_for_training = TRUE}

\* manual-trigger-training.py lines 114-122: the client and the query.
ResetQueryStep(fail) ==
    /\ ops.pc = "idle"
    /\ UNCHANGED <<docs, config, batches, deployed, executions, inv, started>>
    /\ IF fail
       THEN /\ CanFail
            /\ faults' = faults + 1
            /\ ToolReturn("error")
       ELSE /\ faults' = faults
            /\ ops' = [ops EXCEPT !.pc = "reset_loop", !.todo = ResetCandidates,
                                  !.claims_seen = ClaimsRecorded, !.count = 0]

\* manual-trigger-training.py lines 123-129: doc_ref.update of one record of
\* the result; an exception ends the script at line 143.
ResetUpdateStep(d, fail) ==
    /\ ops.pc = "reset_loop"
    /\ d \in ops.todo
    /\ UNCHANGED <<config, batches, deployed, executions, inv, started>>
    /\ IF fail
       THEN /\ CanFail
            /\ faults' = faults + 1
            /\ UNCHANGED docs
            /\ ToolReturn("error")
       ELSE /\ faults' = faults
            /\ docs' = [docs EXCEPT ![d] = [docs[d] EXCEPT !.used_for_training = FALSE,
                                                           !.training_batch_id = NoBatchId]]
            /\ ops' = [ops EXCEPT !.todo = ops.todo \ {d}, !.count = ops.count + 1]

\* manual-trigger-training.py lines 131-140: the count of unused completed
\* records is read and printed; the script is complete.
ResetCountStep(fail) ==
    /\ ops.pc = "reset_loop"
    /\ ops.todo = {}
    /\ UNCHANGED <<docs, config, batches, deployed, executions, inv, started>>
    /\ IF fail
       THEN /\ CanFail
            /\ faults' = faults + 1
            /\ ToolReturn("error")
       ELSE /\ faults' = faults
            /\ ToolReturn("reset")

\* manual-trigger-training.py lines 110-143
reset_document_training_status ==
    \/ \E fail \in BOOLEAN : ResetQueryStep(fail)
    \/ \E d \in DocIds, fail \in BOOLEAN : ResetUpdateStep(d, fail)
    \/ \E fail \in BOOLEAN : ResetCountStep(fail)

\* initialize_firestore.py lines 10-19: config_ref.get().exists.
InitializeGetStep(fail) ==
    /\ ops.pc = "idle"
    /\ UNCHANGED <<docs, config, batches, deployed, executions, inv, started>>
    /\ IF fail
       THEN /\ CanFail
            /\ faults' = faults + 1
            /\ ToolReturn("raised")
       ELSE /\ faults' = faults
            /\ IF config.exists
               THEN ToolReturn("exists")
               ELSE ops' = [ops EXCEPT !.pc = "config_set"]

\* initialize_firestore.py lines 21-39: config_ref.set(default_config), with
\* the thresholds of the environment (MIN_DOCUMENTS_INITIAL,
\* MIN_DOCUMENTS_INCREMENTAL).  The placeholder records of lines 43-79 have
\* status placeholder, match no query of the intake and are deleted again.
InitializeSetStep(mi, mc, fail) ==
    /\ ops.pc = "config_set"
    /\ UNCHANGED <<docs, batches, deployed, executions, inv, started>>
    /\ IF fail
       THEN /\ CanFail
            /\ faults' = faults + 1
            /\ UNCHANGED config
            /\ ToolReturn("raised")
       ELSE /\ faults' = faults
            /\ config' = Config(TRUE, mi, mc)
            /\ ToolReturn("initialized")

\* The thresholds the operator's environment can hold.
EnvThresholds == {1, DefaultMinInitial}

\* initialize_firestore.py lines 8-39
initialize_processor_config ==
    \/ \E fail \in BOOLEAN : InitializeGetStep(fail)
    \/ \E mi \in EnvThresholds, fail \in BOOLEAN :
            InitializeSetStep(mi, DefaultMinIncremental, fail)

\* incremental_training.py lines 342-344
max_wait_time == 3 * 60 * 60
check_interval == 60

\* The delay of one get_operation call, in seconds.
Latencies == {0, 30}

\* Mutant: the elapsed time is never looked at.
TimedOut_Never(elapsed) == FALSE

\* incremental_training.py lines 377-378: elapsed_time > max_wait_time.
TimedOut(elapsed) == elapsed > max_wait_time

\* The long-running operation of the engine: it is done, with or without an
\* error, at a moment of its own, or never.
OperationEnds(err) ==
    /\ ops.operation = "running"
    /\ ops' = [ops EXCEPT !.operation = IF err THEN "error" ELSE "done"]
    /\ UNCHANGED <<docs, config, batches, deployed, executions, inv, started, faults>>

\* incremental_training.py lines 340-344: the monitor starts its clock.
MonitorTrainingStart ==
    /\ ops.pc = "idle"
    /\ ops' = [ops EXCEPT !.pc = "monitor_training", !.operation = "running",
                          !.elapsed = 0]
    /\ UNCHANGED <<docs, config, batches, deployed, executions, inv, started, faults>>

\* incremental_training.py lines 346-395: one turn of the while loop.
\* raised: get_operation or the unpacking of the response raises.
MonitorTrainingCheck(raised, latency) ==
    /\ ops.pc = "monitor_training"
    /\ UNCHANGED <<docs, config, batches, deployed, executions, inv, started, faults>>
    /\ IF raised
       THEN ToolReturn("error")
       ELSE IF ops.operation = "error"
       THEN ToolReturn("failed")
       ELSE IF ops.operation = "done"
       THEN ToolReturn("completed")
       ELSE IF TimedOut(ops.elapsed)
       THEN ToolReturn("timeout")
       ELSE ops' = [ops EXCEPT !.elapsed = ops.elapsed + check_interval + latency]

\* incremental_training.py lines 340-395
monitor_training_operation ==
    \/ MonitorTrainingStart
    \/ \E raised \in BOOLEAN, latency \in Latencies : MonitorTrainingCheck(raised, latency)

\* document_pipeline.py line 286: max_checks by the type of the operation.
ImportMaxChecks == 20
OtherMaxChecks == 60

\* document_pipeline.py line 287: for check in range(max_checks).
PipelineChecksLeft(checks, max) == checks < max

\* document_pipeline.py lines 279-286: the token, and the bound of the loop.
PipelineMonitorStart(is_import, raised) ==
    /\ ops.pc = "idle"
    /\ UNCHANGED <<docs, config, batches, deployed, executions, inv, started, faults>>
    /\ IF raised
       THEN ToolReturn("raised")
       ELSE ops' = [ops EXCEPT !.pc = "monitor_pipeline", !.operation = "running",
                               !.checks = 0,
                               !.max_checks = IF is_import THEN ImportMaxChecks
                                              ELSE OtherMaxChecks]

\* document_pipeline.py lines 287-310: one turn of the for loop, or the
\* return after it.  answer: the request gives status 200, another status,
\* or raises.
PipelineMonitorCheck(answer) ==
    /\ ops.pc = "monitor_pipeline"
    /\ UNCHANGED <<docs, config, batches, deployed, executions, inv, started, faults>>
    /\ IF ~PipelineChecksLeft(ops.checks, ops.max_checks)
       THEN ToolReturn("False")
       ELSE IF answer = "200" /\ ops.operation = "error"
       THEN ToolReturn("False")
       ELSE IF answer = "200" /\ ops.operation = "done"
       THEN ToolReturn("True")
       ELSE ops' = [ops EXCEPT !.checks = ops.checks + 1]

\* document_pipeline.py lines 277-310
_monitor_operation ==
    \/ \E is_import \in BOOLEAN, raised \in BOOLEAN : PipelineMonitorStart(is_import, raised)
    \/ \E answer \in {"200", "500", "exception"} : PipelineMonitorCheck(answer)

(***************************************************************************)
(* Spec: the Cloud Function alone, two invocations at a time.              *)
(***************************************************************************)
Next ==
    \/ \E i \in Inv : \E ev \in Events : Start(i, ev)
    \/ \E i \in Inv : Finish(i)
    \/ \E i \in Inv : ReadExisting(i)
    \/ \E i \in Inv : Classify(i)
    \/ \E i \in Inv : Save(i)
    \/ \E i \in Inv : GetConfig(i)
    \/ \E i \in Inv : SetDefaultConfig(i)
    \/ \E i \in Inv : QueryActive(i)
    \/ \E i \in Inv : QueryPending(i)
    \/ \E i \in Inv : QueryUnused(i)
    \/ \E i \in Inv : Organize(i)
    \/ \E i \in Inv : Launch(i)

Spec == Init /\ [][Next]_vars

(***************************************************************************)
(* SpecTraining: one invocation at a time, with the launched workflow runs *)
(* and the operator's script acting on the store between its round trips.  *)
(***************************************************************************)
TrainingEvents == {Event(TRUE, TRUE, n, PDF) : n \in {PathA, PathB}}

NextTraining ==
    \/ \E ev \in TrainingEvents : Start(1, ev)
    \/ Finish(1)
    \/ ReadExisting(1)
    \/ Classify(1)
    \/ Save(1)
    \/ GetConfig(1)
    \/ SetDefaultConfig(1)
    \/ QueryActive(1)
    \/ QueryPending(1)
    \/ QueryUnused(1)
    \/ Organize(1)
    \/ Launch(1)
    \/ \E k \in 1..MaxInvocations, b \in BatchIds : WorkflowRecordsBatch(k, b)
    \/ \E b \in BatchIds, ok \in BOOLEAN : BatchAdvance(b, ok)
    \/ update_training_status

SpecTraining == Init /\ [][NextTraining]_vars

(***************************************************************************)
(* SpecAdmin: one invocation at a time, the run of a launched workflow      *)
(* recording its batch, and the operator's reset script.  The collection     *)
(* also holds a record of another processor.                               *)
(***************************************************************************)
OTHER_PROCESSOR == "Q"

ForeignBatchId == MaxBatches + 1

ForeignDoc ==
    [DocRecord("completed", S_tax, TRUE, ForeignBatchId) EXCEPT !.processor_id = OTHER_PROCESSOR]

InitAdmin ==
    /\ docs = [d \in DocIds |-> IF d = DocumentId(PathN) THEN ForeignDoc ELSE NoDoc]
    /\ config \in InitConfigs
    /\ batches = [b \in BatchIds |-> NoBatch]
    /\ deployed \in BOOLEAN
    /\ executions = <<>>
    /\ inv = [i \in Inv |-> IdleInv]
    /\ started = 0
    /\ faults = 0
    /\ ops = IdleOps

NextAdmin ==
    \/ \E ev \in TrainingEvents : Start(1, ev)
    \/ Finish(1)
    \/ ReadExisting(1)
    \/ Classify(1)
    \/ Save(1)
    \/ GetConfig(1)
    \/ SetDefaultConfig(1)
    \/ QueryActive(1)
    \/ QueryPending(1)
    \/ QueryUnused(1)
    \/ Organize(1)
    \/ Launch(1)
    \/ \E k \in 1..MaxInvocations, b \in BatchIds : WorkflowRecordsBatch(k, b)
    \/ reset_document_training_status
    \/ ToolExit

SpecAdmin == InitAdmin /\ [][NextAdmin]_vars

(***************************************************************************)
(* SpecConfig: one invocation at a time and the operator's initialisation  *)
(* script, which both write the TrainingConfig of the processor.           *)
(***************************************************************************)
NextConfig ==
    \/ \E ev \in TrainingEvents : StartBounded(1, ev, MaxUploads)
    \/ Finish(1)
    \/ ReadExisting(1)
    \/ Classify(1)
    \/ Save(1)
    \/ GetConfig(1)
    \/ SetDefaultConfig(1)
    \/ QueryActive(1)
    \/ QueryPending(1)
    \/ QueryUnused(1)
    \/ Organize(1)
    \/ Launch(1)
    \/ initialize_processor_config
    \/ ToolExit

SpecConfig == Init /\ [][NextConfig]_vars

(***************************************************************************)
(* SpecMonitor: the two monitors of a long-running operation, which run    *)
(* on as long as they have not returned.                                   *)
(***************************************************************************)
NextMonitor ==
    \/ monitor_training_operation
    \/ _monitor_operation
    \/ \E err \in BOOLEAN : OperationEnds(err)
    \/ ToolExit

SpecMonitor ==
    /\ Init
    /\ [][NextMonitor]_vars
    /\ WF_vars(\E raised \in BOOLEAN, latency \in Latencies :
                    MonitorTrainingCheck(raised, latency))
    /\ WF_vars(\E answer \in {"200", "500", "exception"} : PipelineMonitorCheck(answer))

(***************************************************************************)
(* SpecSequential: the Cloud Function alone, one upload after the other.   *)
(***************************************************************************)
NextSequential ==
    \/ \E ev \in Events : StartBounded(1, ev, MaxUploads)
    \/ Finish(1)
    \/ ReadExisting(1)
    \/ Classify(1)
    \/ Save(1)
    \/ GetConfig(1)
    \/ SetDefaultConfig(1)
    \/ QueryActive(1)
    \/ QueryPending(1)
    \/ QueryUnused(1)
    \/ Organize(1)
    \/ Launch(1)

SpecSequential == Init /\ [][NextSequential]_vars

(***************************************************************************)
(* SpecLabels: the Cloud Function alone, one upload after the other, of    *)
(* a document at the root of documents/, one in a folder whose name has a  *)
(* space and one in a nested folder.                                       *)
(***************************************************************************)
LabelEvents == {Event(TRUE, TRUE, n, PDF) : n \in {PathX, PathC, PathN}}

NextLabels ==
    \/ \E ev \in LabelEvents : StartBounded(1, ev, MaxUploads)
    \/ Finish(1)
    \/ ReadExisting(1)
    \/ Classify(1)
    \/ Save(1)
    \/ GetConfig(1)
    \/ SetDefaultConfig(1)
    \/ QueryActive(1)
    \/ QueryPending(1)
    \/ QueryUnused(1)
    \/ Organize(1)
    \/ Launch(1)

SpecLabels == Init /\ [][NextLabels]_vars

(***************************************************************************)
(* The claims.                                                             *)
(***************************************************************************)
Stored == {d \in DocIds : docs[d].status # "absent"}

ActiveBatches ==
    {b \in BatchIds : /\ batches[b].status \in {"pending", "preparing", "training", "deploying"}
                      /\ batches[b].processor_id = PROCESSOR_ID}

\* C1: when the idempotence read of an accepted event finds the record of its
\* document_id with status completed, the invocation returns 'skipped'
\* (Already processed) at once: nothing is classified, written, evaluated or
\* triggered, and the store holds the same records as before.
C1_Idempotence ==
    [][\A i \in Inv :
        (/\ inv[i].pc = "read_existing"
         /\ inv'[i] # inv[i]
         /\ faults' = faults
         /\ docs[inv[i].document_id].status = "completed")
        => /\ inv'[i].pc = "done"
           /\ inv'[i].response.status = "skipped"
           /\ inv'[i].response.reason = "Already processed"
           /\ ~inv'[i].response.training_triggered
           /\ docs' = docs
           /\ config' = config
           /\ batches' = batches
           /\ executions' = executions]_vars

C1_Witness ==
    \E i \in Inv : /\ inv[i].pc = "done"
                   /\ inv[i].response.status = "skipped"
                   /\ inv[i].response.reason = "Already processed"
                   /\ docs[inv[i].document_id].status = "completed"

\* C2: at most one training batch of the processor is in a non-terminal
\* status (pending, preparing, training, deploying) in every reachable state.
C2_SingleActiveBatch == Cardinality(ActiveBatches) <= 1

\* C3: nothing between the active-batch check and the creation of the
\* execution looks at the batches or the executions again: an invocation that
\* found the thresholds met creates its execution whatever other invocations
\* have launched meanwhile, so two concurrent invocations can both launch.
C3_LaunchNotRechecked ==
    [][\A i \in Inv :
        (/\ inv[i].pc = "launch"
         /\ inv'[i] # inv[i]
         /\ faults' = faults)
        => /\ Len(executions') = Len(executions) + 1
           /\ inv'[i].pc = "done"
           /\ inv'[i].response.training_triggered]_vars

\* Two invocations for different documents have both launched, and both had
\* made their active-batch check before either execution was created.
C3_Witness ==
    /\ inv[1].pc = "done" /\ inv[2].pc = "done"
    /\ inv[1].response.training_triggered /\ inv[2].response.training_triggered
    /\ inv[1].document_id # inv[2].document_id
    /\ inv[1].seen_launches = 0 /\ inv[2].seen_launches = 0
    /\ Len(executions) = 2

\* C4: no record with used_for_training = true is in the set that
\* organize_training_documents selects, for either training kind.
C4_ClaimExclusivity ==
    [][\A i \in Inv :
        (inv[i].pc = "organize" /\ inv'[i].pc = "launch")
        => \A d \in inv'[i].selected : docs[d].used_for_training = FALSE]_vars

\* A claimed record that has the status of the round is left out of the selection.
C4_Witness ==
    \E i \in Inv :
        /\ inv[i].pc = "launch"
        /\ inv[i].selected # {}
        /\ \E d \in DocIds \ inv[i].selected :
              /\ docs[d].status = (IF inv[i].training_type = "initial"
                                   THEN "pending_initial_training" ELSE "completed")
              /\ docs[d].used_for_training
              /\ batches[docs[d].training_batch_id].status \notin
                    {"pending", "preparing", "training", "deploying"}

\* C5: when the active-batch query runs while a batch of the processor is
\* pending, preparing, training or deploying, check_training_conditions
\* answers (False, '') whatever the counts are, and the invocation returns
\* without creating an execution.
C5_ActiveGate ==
    [][\A i \in Inv :
        (/\ inv[i].pc = "query_active"
         /\ inv'[i] # inv[i]
         /\ ActiveBatches # {})
        => /\ inv'[i].pc = "done"
           /\ ~inv'[i].response.training_triggered
           /\ inv'[i].response.training_type = ""
           /\ executions' = executions]_vars

\* The invocation returned without a trigger although the initial threshold
\* is met, because a batch is active.
C5_Witness ==
    \E i \in Inv :
        /\ inv[i].pc = "done"
        /\ inv[i].response.status = "success"
        /\ ~inv[i].response.training_triggered
        /\ faults = 0
        /\ config.exists /\ config.enabled
        /\ ActiveBatches # {}
        /\ Cardinality({d \in Stored : docs[d].status = "pending_initial_training"})
              >= config.min_documents_for_initial_training

\* C6: past the enabled flag and the active-batch check, the answer is
\* (True, 'initial') when the labeled pending_initial_training records are at
\* least min_documents_for_initial_training, else (True, 'incremental') when
\* the labeled unused completed records are at least
\* min_documents_for_incremental, else (False, '').
C6_ThresholdDecision ==
    [][\A i \in Inv :
        /\ (/\ inv[i].pc = "query_pending"
            /\ inv'[i].pc = "query_unused")
           => inv'[i].pending =
                 {d \in Stored : /\ docs[d].processor_id = PROCESSOR_ID
                                 /\ docs[d].status = "pending_initial_training"
                                 /\ docs[d].document_label # <<>>}
        /\ (/\ inv[i].pc = "query_unused"
            /\ inv'[i] # inv[i]
            /\ faults' = faults)
           => LET pending_count == Cardinality(inv[i].pending)
                  unused_count ==
                      Cardinality({d \in Stored : /\ docs[d].processor_id = PROCESSOR_ID
                                                  /\ docs[d].status = "completed"
                                                  /\ ~docs[d].used_for_training
                                                  /\ docs[d].document_label # <<>>})
              IN  IF pending_count >= inv[i].config.min_documents_for_initial_training
                  THEN /\ inv'[i].pc = "organize"
                       /\ inv'[i].should_train
                       /\ inv'[i].training_type = "initial"
                  ELSE IF unused_count >= inv[i].config.min_documents_for_incremental
                  THEN /\ inv'[i].pc = "organize"
                       /\ inv'[i].should_train
                       /\ inv'[i].training_type = "incremental"
                  ELSE /\ inv'[i].pc = "done"
                       /\ ~inv'[i].response.training_triggered]_vars

\* Both thresholds are met and the kind is initial.
C6_Witness ==
    \E i \in Inv :
        /\ inv[i].pc = "organize"
        /\ inv[i].training_type = "initial"
        /\ Cardinality(inv[i].pending) >= inv[i].config.min_documents_for_initial_training
        /\ Cardinality({d \in Stored : /\ docs[d].status = "completed"
                                       /\ ~docs[d].used_for_training})
              >= inv[i].config.min_documents_for_incremental

\* C7: from the empty store, with no deployed version, training enabled and
\* no failure, the k-th of k <= N sequential uploads of distinct accepted
\* documents (N the initial threshold) is answered training_triggered = false
\* when k < N and training_triggered = true, training_type 'initial' when k = N.
C7_EndToEnd ==
    \A i \in Inv :
        (/\ inv[i].pc = "done"
         /\ faults = 0
         /\ ~deployed
         /\ config.exists /\ config.enabled
         /\ Cardinality(Stored) = started
         /\ started <= config.min_documents_for_initial_training)
        => /\ inv[i].response.status = "success"
           /\ inv[i].response.training_triggered
                 = (started = config.min_documents_for_initial_training)
           /\ inv[i].response.training_triggered => inv[i].response.training_type = "initial"

\* The third of three uploads under the default thresholds is answered with a trigger.
C7_Witness ==
    /\ inv[1].pc = "done"
    /\ faults = 0 /\ ~deployed
    /\ config = DefaultConfig
    /\ started = 3 /\ Cardinality(Stored) = 3
    /\ inv[1].response.training_triggered
    /\ inv[1].response.training_type = "initial"

\* C8: once a trigger has run successfully, a TrainingBatch record holds
\* exactly the selected documents, and each of them has used_for_training =
\* true and that batch's id.
C8_BatchRecorded ==
    \A i \in Inv :
        (inv[i].pc = "done" /\ inv[i].response.training_triggered)
        => \E b \in BatchIds :
              /\ batches[b].status # "absent"
              /\ batches[b].document_ids = inv[i].selected
              /\ \A d \in inv[i].selected : /\ docs[d].used_for_training
                                            /\ docs[d].training_batch_id = b

\* C9: when trigger_training_workflow creates an execution, a TrainingBatch
\* record of the processor with status pending has been written.
C9_BatchBeforeLaunch ==
    [][Len(executions') > Len(executions)
        => \E b \in BatchIds : /\ batches'[b].status = "pending"
                               /\ batches'[b].processor_id = PROCESSOR_ID]_vars

\* C10: no two executions were launched on the strength of the same documents.
C10_OneLaunchPerRound ==
    \A j, k \in 1..Len(executions) :
        j # k => executions[j].counted \cap executions[k].counted = {}

\* C11: no step of the intake (or of the training runs) takes a stored
\* record's used_for_training from true to false or changes the
\* training_batch_id of a claimed record; only the administrative reset may.
C11_ClaimNeverCleared ==
    [][\A d \in DocIds :
        (docs[d].status # "absent" /\ docs[d].used_for_training)
        => /\ docs'[d].status # "absent"
           /\ docs'[d].used_for_training
           /\ docs'[d].training_batch_id = docs[d].training_batch_id]_vars

\* C12: a failure of the version listing or of the classify call does not end
\* the invocation: it goes on to the save with status pending_initial_training,
\* and the save writes that status and passes on to the threshold evaluation.
C12_AdapterFailureTolerated ==
    [][\A i \in Inv :
        /\ (/\ inv[i].pc = "classify"
            /\ inv'[i] # inv[i]
            /\ faults' = faults + 1)
           => /\ inv'[i].pc = "save"
              /\ inv'[i].doc_data.status = "pending_initial_training"
        /\ (/\ inv[i].pc = "save"
            /\ inv'[i] # inv[i]
            /\ faults' = faults
            /\ inv[i].doc_data.status = "pending_initial_training")
           => /\ inv'[i].pc = "get_config"
              /\ docs'[inv[i].document_id].status = "pending_initial_training"]_vars

\* With a deployed version, the only invocation so far has had its one
\* failure in the classification, is stored as pending_initial_training and
\* was answered success.
C12_Witness ==
    /\ inv[1].pc = "done" /\ inv[2].pc = "idle"
    /\ started = 1 /\ faults = 1 /\ deployed
    /\ docs[inv[1].document_id].status = "pending_initial_training"
    /\ inv[1].response.status = "success"

\* C13: a failing Record Store call of the intake (the idempotence read, the
\* record write, the reads and the write of the threshold evaluation) ends
\* the invocation with status error.
C13_StoreFailureIsError ==
    [][\A i \in Inv :
        (/\ inv[i].pc \in {"read_existing", "save", "get_config", "set_default_config",
                           "query_active", "query_pending", "query_unused"}
         /\ inv'[i] # inv[i]
         /\ faults' = faults + 1)
        => /\ inv'[i].pc = "done"
           /\ inv'[i].response.status = "error"]_vars

\* C14: an invocation that ends at the filter, before a document id is
\* derived (the event lacks a field or is not an accepted document), is
\* answered 'skipped'.
C14_MalformedEventSkipped ==
    \A i \in Inv :
        (inv[i].pc = "done" /\ inv[i].document_id = <<>>)
        => inv[i].response.status = "skipped"

\* C15: when create_execution fails, a TrainingBatch of the round has status
\* failed and the selected records have used_for_training = true.
C15_LauncherFailureRecorded ==
    [][\A i \in Inv :
        (/\ inv[i].pc = "launch"
         /\ inv'[i] # inv[i]
         /\ faults' = faults + 1)
        => \E b \in BatchIds :
              /\ batches'[b].status = "failed"
              /\ batches'[b].document_ids = inv[i].selected
              /\ \A d \in inv[i].selected : docs'[d].used_for_training]_vars

\* C16: every response has a status among success, partial_success, skipped
\* and error, and an error or partial_success response has an error string.
C16_ResponseShape ==
    \A i \in Inv :
        inv[i].pc = "done"
        => /\ inv[i].response.status \in {"success", "partial_success", "skipped", "error"}
           /\ (inv[i].response.status \in {"error", "partial_success"}
               => inv[i].response.error # "")

\* A failed trigger was answered partial_success, with its error string.
C16_Witness ==
    \E i \in Inv : /\ inv[i].pc = "done"
                   /\ inv[i].response.status = "partial_success"
                   /\ inv[i].response.error # ""
                   /\ faults = 1

\* C17: the record write of an invocation that classified its document puts
\* status completed only on a record that is not completed yet.
C17_CompletedOnce ==
    [][\A i \in Inv :
        (/\ inv[i].pc = "save"
         /\ inv'[i].pc = "get_config"
         /\ inv[i].doc_data.status = "completed")
        => docs[inv[i].document_id].status # "completed"]_vars

\* The labeled records the evaluation counts for the initial kind and for
\* the incremental kind, as the store holds them now.
EligibleInitial ==
    {d \in Stored : /\ docs[d].status = "pending_initial_training"
                    /\ docs[d].document_label # <<>>}

EligibleIncremental ==
    {d \in Stored : /\ docs[d].status = "completed"
                    /\ ~docs[d].used_for_training
                    /\ docs[d].document_label # <<>>}

\* Two invocations for two different documents, the only ones so far, ran
\* concurrently and have both returned without a failure, training is
\* enabled, no batch is active, and a threshold is met by the records
\* stored now but by neither record alone.
RaceScenarioDone ==
    /\ inv[1].pc = "done" /\ inv[2].pc = "done"
    /\ started = 2 /\ faults = 0
    /\ inv[1].document_id # inv[2].document_id
    /\ inv[1].document_id # <<>> /\ inv[2].document_id # <<>>
    /\ Cardinality(Stored) = 2
    /\ config.exists /\ config.enabled
    /\ ActiveBatches = {}
    /\ \/ /\ Cardinality(EligibleInitial) >= config.min_documents_for_initial_training
          /\ config.min_documents_for_initial_training > 1
       \/ /\ Cardinality(EligibleIncremental) >= config.min_documents_for_incremental
          /\ config.min_documents_for_incremental > 1

\* C18: the races-to-zero outcome of the claim does not occur.  Each
\* invocation persists its record before it evaluates, so of two concurrent
\* invocations whose documents together reach a threshold, the one whose
\* count query runs last sees both records: in every interleaving at least
\* one of the two is answered training_triggered = true.
C18_NoRaceToZero ==
    RaceScenarioDone
    => inv[1].response.training_triggered \/ inv[2].response.training_triggered

\* The two ran concurrently (both looked for an active batch before any
\* execution was created) and exactly one of them triggered.
C18_Witness ==
    /\ RaceScenarioDone
    /\ inv[1].seen_launches = 0 /\ inv[2].seen_launches = 0
    /\ inv[1].response.training_triggered # inv[2].response.training_triggered

\* C18 as stated, for the scenario's outcome: the two invocations both
\* observe the threshold as not met and neither triggers.  (The statement
\* is one of possibility; that no interleaving at all has this outcome is
\* C18_NoRaceToZero.)
C18_RaceToZero ==
    RaceScenarioDone
    => /\ ~inv[1].response.training_triggered
       /\ ~inv[2].response.training_triggered

\* C19: the delivery of an event that has its fields but whose name does not
\* start with documents/ or whose contentType is not application/pdf is
\* answered 'skipped' at once, and the store (documents, configuration,
\* batches) and the executions are as before.
C19_FilteredEventSkipped ==
    [][\A i \in Inv : \A ev \in Events :
        (/\ ev.has_bucket /\ ev.has_name
         /\ \/ ~StartsWithDocuments(ev.name)
            \/ ev.contentType # PDF
         /\ Start(i, ev))
        => /\ inv'[i].pc = "done"
           /\ inv'[i].response.status = "skipped"
           /\ ~inv'[i].response.training_triggered
           /\ docs' = docs
           /\ config' = config
           /\ batches' = batches
           /\ deployed' = deployed
           /\ executions' = executions]_vars

\* An event was answered 'skipped' by the filter while the store holds records.
C19_Witness ==
    \E i \in Inv : /\ inv[i].pc = "done"
                   /\ inv[i].response.status = "skipped"
                   /\ inv[i].response.reason = "Not a document PDF"
                   /\ Stored # {}

\* C20: the set organize_training_documents selects is, up to the cap, the
\* set the threshold evaluation counted for the kind, so it has at least
\* min(threshold, cap) documents.
C20_SelectedIsCounted ==
    [][\A i \in Inv :
        (inv[i].pc = "organize" /\ inv'[i].pc = "launch")
        => LET threshold == IF inv[i].training_type = "initial"
                            THEN inv[i].config.min_documents_for_initial_training
                            ELSE inv[i].config.min_documents_for_incremental
               least == IF threshold <= QueryLimit THEN threshold ELSE QueryLimit
           IN  /\ IF Cardinality(inv[i].counted) <= QueryLimit
                  THEN inv'[i].selected = inv[i].counted
                  ELSE /\ inv'[i].selected \subseteq inv[i].counted
                       /\ Cardinality(inv'[i].selected) = QueryLimit
               /\ Cardinality(inv'[i].selected) >= least]_vars

\* C21: a record whose label is the unlabeled value (the label of a document
\* uploaded at the root of documents/) is in neither count of the evaluation.
C21_UnlabeledNotCounted ==
    [][\A i \in Inv :
        /\ (inv[i].pc = "query_pending" /\ inv'[i].pc = "query_unused")
           => \A d \in inv'[i].pending : docs[d].document_label \notin {<<>>, OTHER_LABEL}
        /\ (inv[i].pc = "query_unused" /\ inv'[i].pc = "organize")
           => \A d \in inv'[i].counted : docs[d].document_label \notin {<<>>, OTHER_LABEL}]_vars

\* C24: when the deployed model classifies a document, the status becomes
\* completed, and the label is the folder label if the confidence is below
\* 0.7 and the folder label is not OTHER, else the predicted type; that is
\* the label and status the record write stores.
C24_ConfidencePolicy ==
    [][\A i \in Inv :
        /\ \A predicted_type \in PredictedTypes : \A confidence \in Confidences :
              (deployed /\ ClassifyStep(i, FALSE, FALSE, predicted_type, confidence))
              => /\ inv'[i].doc_data.status = "completed"
                 /\ inv'[i].doc_data.document_label =
                       IF /\ confidence < 70
                          /\ inv[i].doc_data.document_label # <<"O", "T", "H", "E", "R">>
                       THEN inv[i].doc_data.document_label
                       ELSE predicted_type
        /\ (inv[i].pc = "save" /\ inv'[i].pc = "get_config")
           => /\ docs'[inv[i].document_id].status = inv[i].doc_data.status
              /\ docs'[inv[i].document_id].document_label = inv[i].doc_data.document_label]_vars

\* The document under 'cap call' kept its folder label through a classification
\* of type tax, and the document at the root got the predicted type.
C24_Witness ==
    /\ docs[DocumentId(PathC)].status = "completed"
    /\ docs[DocumentId(PathC)].document_label = <<"c", "a", "p", "_", "c", "a", "l", "l">>
    /\ docs[DocumentId(PathX)].status = "completed"
    /\ docs[DocumentId(PathX)].document_label = S_tax

\* C27: the label given to a path is its first folder below documents/, with
\* spaces replaced by underscores, and OTHER when the file is directly under
\* documents/.
C27_LabelDerivation ==
    \A i \in Inv :
        inv[i].pc = "classify"
        => inv[i].doc_data.document_label =
              CASE inv[i].event.name = PathC -> <<"c", "a", "p", "_", "c", "a", "l", "l">>
                [] inv[i].event.name = PathN -> <<"t", "a", "x">>
                [] inv[i].event.name = PathX -> <<"O", "T", "H", "E", "R">>

\* The document in the nested folder tax/2024 is labeled tax.
C27_Witness ==
    \E i \in Inv : /\ inv[i].pc = "classify"
                   /\ inv[i].event.name = PathN
                   /\ inv[i].doc_data.document_label = S_tax

\* C22: when the stored configuration has enabled = false, the evaluation
\* ends at the configuration read with (False, ''): the invocation returns
\* without a trigger and no execution is ever created.
C22_DisabledNeverTriggers ==
    [][/\ \A i \in Inv :
            (/\ inv[i].pc = "get_config"
             /\ inv'[i] # inv[i]
             /\ config.exists /\ ~config.enabled)
            => /\ inv'[i].pc = "done"
               /\ ~inv'[i].response.training_triggered
               /\ inv'[i].response.training_type = ""
       /\ (config.exists /\ ~config.enabled) => executions' = executions]_vars

\* Training is disabled, the initial threshold is met, and the upload was
\* answered success without a trigger.
C22_Witness ==
    \E i \in Inv :
        /\ inv[i].pc = "done"
        /\ inv[i].response.status = "success"
        /\ ~inv[i].response.training_triggered
        /\ faults = 0
        /\ config.exists /\ ~config.enabled
        /\ Cardinality(EligibleInitial) >= config.min_documents_for_initial_training

\* C29: a stored record with status pending_initial_training that no batch
\* has claimed keeps that status under every step of the intake.
C29_PendingInitialStable ==
    [][\A d \in DocIds :
        (/\ docs[d].status = "pending_initial_training"
         /\ ~docs[d].used_for_training)
        => docs'[d].status = "pending_initial_training"]_vars

\* C30: every stored record has status pending_initial_training or completed.
C30_StoredStatus ==
    \A d \in DocIds :
        docs[d].status # "absent"
        => docs[d].status \in {"pending_initial_training", "completed"}

\* Records of both statuses are stored, one of them after a failure of the
\* classification.
C30_Witness ==
    /\ faults = 1 /\ deployed
    /\ \E d \in DocIds : docs[d].status = "pending_initial_training"
    /\ \E d \in DocIds : docs[d].status = "completed"

\* C28: an execution of kind initial exists only while no model
\* version is deployed.
C28_InitialOnlyWithoutModel ==
    \A k \in 1..Len(executions) :
        executions[k].training_type = "initial" => ~deployed

\* C25: a step of the intake never modifies or deletes a TrainingConfig that
\* is stored; it writes the configuration only when none is stored.
C25_ExistingConfigKept ==
    [][\A i \in Inv :
        (inv'[i] # inv[i] /\ config.exists) => config' = config]_vars

\* C26: every write of the reset clears used_for_training and
\* training_batch_id of one used record of the processor and leaves its other
\* fields, all other records, the batches and the configuration as they
\* were; when the reset completes, and no run has claimed documents since
\* its query, no record of the processor has used_for_training = true.
C26_ResetEffect ==
    [][ops' # ops =>
        /\ batches' = batches
        /\ ops.pc = "reset_loop" => config' = config
        /\ \A d \in DocIds :
              (ops.pc = "reset_loop" /\ docs'[d] # docs[d])
              => /\ docs[d].status # "absent"
                 /\ docs[d].processor_id = PROCESSOR_ID
                 /\ docs'[d] = [docs[d] EXCEPT !.used_for_training = FALSE,
                                               !.training_batch_id = NoBatchId]
        /\ (/\ ops.pc = "reset_loop"
            /\ ops'.result = "reset"
            /\ ClaimsRecorded = ops.claims_seen)
           => \A d \in DocIds :
                (docs'[d].status # "absent" /\ docs'[d].processor_id = PROCESSOR_ID)
                => /\ ~docs'[d].used_for_training
                   /\ docs'[d].training_batch_id = NoBatchId]_vars

\* The reset has completed after it cleared a claimed record of a batch; the
\* record of the other processor is still marked used.
C26_Witness ==
    /\ ops.result = "reset"
    /\ ops.count >= 1
    /\ ClaimsRecorded = ops.claims_seen
    /\ \E b \in BatchIds :
        /\ batches[b].status # "absent"
        /\ \E d \in batches[b].document_ids :
             ~docs[d].used_for_training /\ docs[d].training_batch_id = NoBatchId
    /\ docs[DocumentId(PathN)] = ForeignDoc

\* C23: monitor_training_operation returns only completed, failed, timeout
\* or error; a check made after more than max_wait_time has elapsed, with the
\* operation not done and no exception, returns timeout; the loop of
\* _monitor_operation makes at most max_checks checks and returns False
\* after the last one; and both monitors always return.
C23_MonitorsReturn ==
    /\ [][/\ (ops.pc = "monitor_training" /\ ops'.pc = "returned")
             => ops'.result \in {"completed", "failed", "timeout", "error"}
          /\ (/\ ops.pc = "monitor_training"
              /\ ops' # ops
              /\ ops.elapsed > max_wait_time
              /\ ops.operation = "running"
              /\ ops'.operation = "running")
             => (ops'.pc = "returned" /\ ops'.result \in {"timeout", "error"})
          /\ ops'.pc = "monitor_pipeline" => ops'.checks <= ops'.max_checks
          /\ (/\ ops.pc = "monitor_pipeline"
              /\ ops' # ops
              /\ ops.checks = ops.max_checks
              /\ ops'.operation = ops.operation)
             => (ops'.pc = "returned" /\ ops'.result = "False")]_vars
    /\ (ops.pc = "monitor_training") ~> (ops.pc = "returned")
    /\ (ops.pc = "monitor_pipeline") ~> (ops.pc = "returned")

\* monitor_training_operation has returned timeout after more than three
\* hours with the operation still running.
C23_Witness ==
    /\ ops.result = "timeout"
    /\ ops.elapsed > max_wait_time
    /\ ops.operation = "running"

====
